---- MODULE Spec2Model ----
(***************************************************************************)
(* State-machine model of chess1.cpp: the piece legality predicates, the   *)
(* Board operations, and the ChessGame::start loop with its human (White)  *)
(* branch and its random-move (Black) branch.                              *)
(***************************************************************************)
EXTENDS Integers, Sequences, FiniteSets, TLC

\* Number of applied moves after which the model stops asking for moves.
MaxMoves == 3

\* Side length of the board (Position::isValid, Board::Board).
BoardSize == 8

White == "White"
Black == "Black"

Rows == 0 .. (BoardSize - 1)
Pos == Rows \X Rows

\* Position::isValid
isValid(p) == p[1] >= 0 /\ p[1] < BoardSize /\ p[2] >= 0 /\ p[2] < BoardSize

\* The piece objects: (color, type) as set by the Piece constructor.
Pc(c, t) == [color |-> c, type |-> t]

\* Empty() : Piece(PieceColor::White, PieceType::None)
Empty == Pc(White, "None")

PieceTypes == {"King", "Queen", "Rook", "Bishop", "Knight", "Pawn"}
Colors == {White, Black}
Pieces == {Pc(c, t) : c \in Colors, t \in PieceTypes} \cup {Empty}

\* abs() of <cmath>/<cstdlib>
Abs(x) == IF x < 0 THEN -x ELSE x

--------------------------------------------------------------------------
(* Legality predicates.  `b` is the grid handed to isMoveValid, `color`    *)
(* the color field of the piece the method is called on.                   *)

\* King::isMoveValid without the same-color test.
King_isMoveValidNoOwn(color, from, to, b) ==
    Abs(from[1] - to[1]) <= 1 /\ Abs(from[2] - to[2]) <= 1

King_isMoveValid(color, from, to, b) ==
    LET dx == Abs(from[1] - to[1])
        dy == Abs(from[2] - to[2])
        dest == b[to]
    IN  IF dest.type # "None" /\ dest.color = color THEN FALSE
        ELSE dx <= 1 /\ dy <= 1

\* Queen::isMoveValid without the same-color test.
Queen_isMoveValidNoOwn(color, from, to, b) ==
    LET dx == Abs(from[1] - to[1])
        dy == Abs(from[2] - to[2])
    IN  dx = dy \/ from[1] = to[1] \/ from[2] = to[2]

Queen_isMoveValid(color, from, to, b) ==
    LET dx == Abs(from[1] - to[1])
        dy == Abs(from[2] - to[2])
        dest == b[to]
    IN  IF dest.type # "None" /\ dest.color = color THEN FALSE
        ELSE dx = dy \/ from[1] = to[1] \/ from[2] = to[2]

\* Rook::isMoveValid with the cells between from and to required Empty.
Rook_isMoveValidBlocked(color, from, to, b) ==
    IF from[1] # to[1] /\ from[2] # to[2] THEN FALSE
    ELSE LET dest == b[to]
             lo1 == IF from[1] < to[1] THEN from[1] ELSE to[1]
             hi1 == IF from[1] < to[1] THEN to[1] ELSE from[1]
             lo2 == IF from[2] < to[2] THEN from[2] ELSE to[2]
             hi2 == IF from[2] < to[2] THEN to[2] ELSE from[2]
         IN  IF dest.type # "None" /\ dest.color = color THEN FALSE
             ELSE \A r \in lo1 .. hi1, c \in lo2 .. hi2 :
                     (<<r, c>> # from /\ <<r, c>> # to) => b[<<r, c>>].type = "None"

\* Rook::isMoveValid without the same-color test.
Rook_isMoveValidNoOwn(color, from, to, b) ==
    IF from[1] # to[1] /\ from[2] # to[2] THEN FALSE ELSE TRUE

Rook_isMoveValid(color, from, to, b) ==
    IF from[1] # to[1] /\ from[2] # to[2] THEN FALSE
    ELSE LET dest == b[to]
         IN  IF dest.type # "None" /\ dest.color = color THEN FALSE
             ELSE TRUE

Bishop_isMoveValid(color, from, to, b) ==
    LET dx == Abs(from[1] - to[1])
        dy == Abs(from[2] - to[2])
        dest == b[to]
    IN  IF dest.type # "None" /\ dest.color = color THEN FALSE
        ELSE dx = dy

\* Knight::isMoveValid with the geometry test dx + dy == 3.
Knight_isMoveValidSum(color, from, to, b) ==
    LET dx == Abs(from[1] - to[1])
        dy == Abs(from[2] - to[2])
        dest == b[to]
    IN  IF dest.type # "None" /\ dest.color = color THEN FALSE
        ELSE dx + dy = 3

Knight_isMoveValid(color, from, to, b) ==
    LET dx == Abs(from[1] - to[1])
        dy == Abs(from[2] - to[2])
        dest == b[to]
    IN  IF dest.type # "None" /\ dest.color = color THEN FALSE
        ELSE (dx = 2 /\ dy = 1) \/ (dx = 1 /\ dy = 2)

\* Pawn::isMoveValid without the test of the intermediate cell.
Pawn_isMoveValidNoMid(color, from, to, b) ==
    LET dir == IF color = White THEN -1 ELSE 1
        startRow == IF color = White THEN 6 ELSE 1
        dest == b[to]
    IN  IF from[2] = to[2] /\ dest.type = "None"
        THEN IF to[1] = from[1] + dir THEN TRUE
             ELSE IF from[1] = startRow /\ to[1] = from[1] + 2 * dir
                  THEN TRUE
                  ELSE FALSE
        ELSE IF /\ Abs(to[2] - from[2]) = 1
                /\ to[1] = from[1] + dir
                /\ dest.type # "None"
                /\ dest.color # color
             THEN TRUE
             ELSE FALSE

\* Pawn::isMoveValid without the double step from the start row.
Pawn_isMoveValidSingle(color, from, to, b) ==
    LET dir == IF color = White THEN -1 ELSE 1
        dest == b[to]
    IN  IF from[2] = to[2] /\ dest.type = "None"
        THEN to[1] = from[1] + dir
        ELSE /\ Abs(to[2] - from[2]) = 1
             /\ to[1] = from[1] + dir
             /\ dest.type # "None"
             /\ dest.color # color

Pawn_isMoveValid(color, from, to, b) ==
    LET dir == IF color = White THEN -1 ELSE 1
        startRow == IF color = White THEN 6 ELSE 1
        dest == b[to]
    IN  IF from[2] = to[2] /\ dest.type = "None"
        THEN IF to[1] = from[1] + dir THEN TRUE
             ELSE IF /\ from[1] = startRow
                     /\ to[1] = from[1] + 2 * dir
                     /\ b[<<from[1] + dir, from[2]>>].type = "None"
                  THEN TRUE
                  ELSE FALSE
        ELSE IF /\ Abs(to[2] - from[2]) = 1
                /\ to[1] = from[1] + dir
                /\ dest.type # "None"
                /\ dest.color # color
             THEN TRUE
             ELSE FALSE

\* Empty::isMoveValid
Empty_isMoveValid(color, from, to, b) == FALSE

\* Virtual dispatch of piece->isMoveValid(from, to, board).
isMoveValid(piece, from, to, b) ==
    CASE piece.type = "King"   -> King_isMoveValid(piece.color, from, to, b)
      [] piece.type = "Queen"  -> Queen_isMoveValid(piece.color, from, to, b)
      [] piece.type = "Rook"   -> Rook_isMoveValid(piece.color, from, to, b)
      [] piece.type = "Bishop" -> Bishop_isMoveValid(piece.color, from, to, b)
      [] piece.type = "Knight" -> Knight_isMoveValid(piece.color, from, to, b)
      [] piece.type = "Pawn"   -> Pawn_isMoveValid(piece.color, from, to, b)
      [] OTHER                 -> Empty_isMoveValid(piece.color, from, to, b)

--------------------------------------------------------------------------
(* Board                                                                   *)

BackRank == <<"Rook", "Knight", "Bishop", "Queen", "King", "Bishop", "Knight", "Rook">>

\* Board::setup
Board_setup ==
    [p \in Pos |->
        CASE p[1] = 0 -> Pc(Black, BackRank[p[2] + 1])
          [] p[1] = 1 -> Pc(Black, "Pawn")
          [] p[1] = 6 -> Pc(White, "Pawn")
          [] p[1] = 7 -> Pc(White, BackRank[p[2] + 1])
          [] OTHER    -> Empty]

\* Board::getPiece
Board_getPiece(b, pos) == b[pos]

\* MovedPiece with the promotion test to.row == 0 alone.
MovedPieceRow0(piece, to) ==
    IF piece.type = "Pawn" /\ to[1] = 0
    THEN Pc(piece.color, "Queen")
    ELSE piece

\* MovedPiece without the promotion branch.
MovedPieceSame(piece, to) == piece

\* The cell Board::move writes at `to`: a new Queen for a pawn on row 0 or 7.
MovedPiece(piece, to) ==
    IF piece.type = "Pawn" /\ (to[1] = 0 \/ to[1] = 7)
    THEN Pc(piece.color, "Queen")
    ELSE piece

\* Board::move clearing the source cell before the legality test.
Board_moveEager(b, from, to) ==
    LET piece == b[from]
        cleared == [b EXCEPT ![from] = Empty]
    IN  IF ~isMoveValid(piece, from, to, b)
        THEN [ok |-> FALSE, board |-> cleared]
        ELSE [ok |-> TRUE, board |-> [cleared EXCEPT ![to] = MovedPiece(piece, to)]]

\* Board::move without the store of a new Empty at the source.
Board_moveKeepSource(b, from, to) ==
    LET piece == Board_getPiece(b, from)
    IN  IF ~isMoveValid(piece, from, to, b)
        THEN [ok |-> FALSE, board |-> b]
        ELSE [ok |-> TRUE, board |-> [b EXCEPT ![to] = MovedPiece(piece, to)]]

\* Board::move: [ok |-> return value, board |-> the grid afterwards]
Board_move(b, from, to) ==
    LET piece == Board_getPiece(b, from)
    IN  IF ~isMoveValid(piece, from, to, b)
        THEN [ok |-> FALSE, board |-> b]
        ELSE [ok |-> TRUE,
              board |-> [[b EXCEPT ![to] = MovedPiece(piece, to)]
                            EXCEPT ![from] = Empty]]

\* Position in the row-major scan order of the nested 0..7 loops.
ScanIdx(p) == p[1] * BoardSize + p[2]
ScanPos(k) == <<k \div BoardSize, k % BoardSize>>

\* Board::findKing without the color half of the test.
Board_findKingAny(b, color) ==
    LET ks == {p \in Pos : b[p].type = "King"}
    IN  IF ks = {} THEN <<-1, -1>>
        ELSE CHOOSE p \in ks : \A q \in ks : ScanIdx(p) <= ScanIdx(q)

\* Board::findKing: first match in scan order, or {-1, -1}.
Board_findKing(b, color) ==
    LET ks == {p \in Pos : b[p].type = "King" /\ b[p].color = color}
    IN  IF ks = {} THEN <<-1, -1>>
        ELSE CHOOSE p \in ks : \A q \in ks : ScanIdx(p) <= ScanIdx(q)

--------------------------------------------------------------------------
(* ChessGame                                                               *)

\* ChessGame::nextTurn
nextTurn(turn) == IF turn = White THEN Black ELSE White

\* isCheckmate looking for the king of the other color.
isCheckmateOther(b, color) ==
    Board_findKing(b, IF color = White THEN Black ELSE White)[1] = -1

\* ChessGame::isCheckmate
isCheckmate(b, color) ==
    LET kingPos == Board_findKing(b, color)
    IN  IF kingPos[1] = -1 THEN TRUE ELSE FALSE

\* ChessGame::handleMove.  Strings are sequences of character codes; the
\* default arguments are the empty string.  `ret` names the return taken.
handleMove(b, turn, hist, from, to, fromStr, toStr) ==
    LET piece == Board_getPiece(b, from)
    IN  IF piece.type = "None"
        THEN [ok |-> FALSE, board |-> b, history |-> hist, ret |-> "noPiece"]
        ELSE IF piece.color # turn
        THEN [ok |-> FALSE, board |-> b, history |-> hist, ret |-> "wrongColor"]
        ELSE LET m == Board_move(b, from, to)
             IN  IF m.ok
                 THEN [ok |-> TRUE, board |-> m.board,
                       history |-> IF fromStr # <<>> /\ toStr # <<>>
                                   THEN Append(hist, fromStr \o <<45>> \o toStr)
                                   ELSE hist,
                       ret |-> "applied"]
                 ELSE [ok |-> FALSE, board |-> m.board, history |-> hist,
                       ret |-> "illegal"]

\* Position from = { 8 - (s[1] - '0'), s[0] - 'a' }  (C++ indices 1 and 0)
ParsePos(s) == <<8 - (s[2] - 48), s[1] - 97>>

\* Two-character tokens "a1" .. "h8": file letter, rank digit.
AllTokens == {<<f, r>> : f \in 97 .. 104, r \in 49 .. 56}

\* The tokens the human types in the model:
\* b1 c3 c4 d1 d5 d7 d8 e1 e2 e4 e5 e8 f1
Tokens == {<<98, 49>>, <<99, 51>>, <<99, 52>>, <<100, 49>>, <<100, 53>>,
           <<100, 55>>, <<100, 56>>, <<101, 49>>, <<101, 50>>, <<101, 52>>,
           <<101, 53>>, <<101, 56>>, <<102, 49>>}

\* Values of rand() the model draws.
RandValues == {0, 1, 44}

VARIABLES
    board,        \* ChessGame::board, the live grid
    currentTurn,  \* ChessGame::currentTurn
    moveHistory,  \* ChessGame::moveHistory
    pc,           \* position in ChessGame::start
    moves,        \* the local vector `moves` of the Black branch
    cursor,       \* scan index of the next source cell of the i, j loops
    req,          \* the (from, to) handed to the last handleMove / Board::move
    ret,          \* which return that call took
    applied,      \* log of the calls of Board::move that returned true
    winner,       \* the color announced when the loop breaks
    oob           \* whether board storage was indexed at an invalid position

vars == <<board, currentTurn, moveHistory, pc, moves, cursor, req, ret, applied,
          winner, oob>>

NoReq == <<>>

Init ==
    /\ board = Board_setup
    /\ currentTurn = White
    /\ moveHistory = <<>>
    /\ pc = "loop"
    /\ moves = <<>>
    /\ cursor = 0
    /\ req = NoReq
    /\ ret = "none"
    /\ applied = <<>>
    /\ winner = "none"
    /\ oob = FALSE

\* Top of the while loop: draw, then the isCheckmate test.  The locals of
\* the iteration (moves, the loop counters, handleMove's result) start afresh.
LoopTop ==
    /\ pc = "loop"
    /\ IF isCheckmate(board, currentTurn)
       THEN /\ pc' = "ended"
            /\ winner' = IF currentTurn = White THEN Black ELSE White
       ELSE /\ pc' = IF currentTurn = White THEN "white" ELSE "blackEnum"
            /\ winner' = winner
    /\ moves' = <<>>
    /\ cursor' = 0
    /\ req' = NoReq
    /\ ret' = "none"
    /\ UNCHANGED <<board, currentTurn, moveHistory, applied, oob>>

\* Log entry of a successful Board::move: the pair and `auto piece`.
Applied(b, from, to) == [from |-> from, to |-> to, piece |-> Board_getPiece(b, from)]

\* The human branch calling nextTurn whatever handleMove returned.
HumanTurnAlways(ok, turn) == nextTurn(turn)

\* The turn after the human branch: if (handleMove(...)) nextTurn();
HumanTurnAfter(ok, turn) == IF ok THEN nextTurn(turn) ELSE turn

\* White branch: read two tokens, parse, handleMove, nextTurn on success.
Human(fromStr, toStr) ==
    /\ pc = "white"
    /\ Len(applied) < MaxMoves
    /\ LET from == ParsePos(fromStr)
           to == ParsePos(toStr)
           r == handleMove(board, currentTurn, moveHistory, from, to, fromStr, toStr)
       IN  /\ board' = r.board
           /\ moveHistory' = r.history
           /\ req' = <<from, to>>
           /\ ret' = r.ret
           /\ currentTurn' = HumanTurnAfter(r.ok, currentTurn)
           /\ applied' = IF r.ok THEN Append(applied, Applied(board, from, to))
                          ELSE applied
    /\ pc' = "loop"
    /\ UNCHANGED <<moves, cursor, winner, oob>>

\* Piece::clone of each class: a new object with the same color and type.
Piece_clone(piece) == Pc(piece.color, piece.type)

\* Board::clone handing back the storage it was called on.
Board_cloneShared(heap, src) == [heap |-> heap, ref |-> src]

\* Board::clone.  A heap holds the storage of the live board and of the
\* snapshot; the result is the heap afterwards and the reference to the copy.
\* `Board newBoard;` runs setup, then every cell is overwritten by a clone.
Board_clone(heap, src) ==
    LET newBoard == Board_setup
    IN  [heap |-> [heap EXCEPT !.test =
                      [p \in Pos |-> Piece_clone(heap[src][p])]],
         ref |-> "test"]

\* Body of `if (piece->isMoveValid(...))` in the Black branch: clone the
\* live board, move on the copy, keep the pair if the copy has a Black king.
Probe(heap, from, to, acc) ==
    LET c == Board_clone(heap, "live")
        m == Board_move(c.heap[c.ref], from, to)
        h == [c.heap EXCEPT ![c.ref] = m.board]
    IN  [heap |-> h,
         moves |-> IF Board_findKing(h[c.ref], Black)[1] # -1
                   THEN Append(acc, <<from, to>>)
                   ELSE acc]

\* Body of the y loop for the destination `to`, on st = [heap, moves]: the
\* isMoveValid test on the live board, then the probe.
ProbeCell(st, piece, from, to) ==
    IF isMoveValid(piece, from, to, st.heap.live)
    THEN Probe(st.heap, from, to, st.moves)
    ELSE st

\* The y loop for the columns lo .. hi of row x and one source cell, on
\* st = [heap, moves]: the iterations of the first half of the range, then
\* those of the second on what the first half leaves.
RECURSIVE ProbeRow(_, _, _, _, _, _)
ProbeRow(st, piece, from, x, lo, hi) ==
    IF lo = hi THEN ProbeCell(st, piece, from, <<x, lo>>)
    ELSE CHOOSE r \in
             {ProbeRow(first, piece, from, x, (lo + hi) \div 2 + 1, hi) :
                 first \in {ProbeRow(st, piece, from, x, lo, (lo + hi) \div 2)}} :
             TRUE

\* The x loop for the rows lo .. hi of destinations, each with its whole
\* y loop, split the same way.
RECURSIVE ProbeFrom(_, _, _, _, _)
ProbeFrom(st, piece, from, lo, hi) ==
    IF lo = hi THEN ProbeRow(st, piece, from, lo, 0, BoardSize - 1)
    ELSE CHOOSE r \in
             {ProbeFrom(first, piece, from, (lo + hi) \div 2 + 1, hi) :
                 first \in {ProbeFrom(st, piece, from, lo, (lo + hi) \div 2)}} :
             TRUE

\* The source cells without the color half of the skip test.
BlackSourcesAny(b, start) ==
    {k \in start .. (BoardSize * BoardSize - 1) : ~(b[ScanPos(k)].type = "None")}

\* Source cells the i, j loops do not skip: a Black piece that is not Empty.
BlackSources(b, start) ==
    {k \in start .. (BoardSize * BoardSize - 1) :
        ~(b[ScanPos(k)].color # Black \/ b[ScanPos(k)].type = "None")}

\* Black branch, enumeration: advance the i, j loops to the next Black piece
\* and run all its probes; when no source is left, go on to the selection.
BlackScan ==
    /\ pc = "blackEnum"
    /\ Len(applied) < MaxMoves
    /\ LET src == BlackSources(board, cursor)
       IN  IF src = {}
           THEN /\ pc' = "blackPick"
                /\ cursor' = BoardSize * BoardSize
                /\ UNCHANGED <<board, moves>>
           ELSE LET k == CHOOSE x \in src : \A y \in src : x <= y
                    from == ScanPos(k)
                    piece == Board_getPiece(board, from)
                    r == ProbeFrom([heap |-> [live |-> board, test |-> Board_setup],
                                    moves |-> moves],
                                   piece, from, 0, BoardSize - 1)
                IN  /\ board' = r.heap.live
                    /\ moves' = r.moves
                    /\ cursor' = k + 1
                    /\ pc' = pc
    /\ UNCHANGED <<currentTurn, moveHistory, req, ret, applied, winner, oob>>

\* The Black branch with nextTurn() placed after the if (!moves.empty()) block.
BlackApplyAdvance(rv) ==
    /\ pc = "blackPick"
    /\ IF moves # <<>>
       THEN LET move == moves[(rv % Len(moves)) + 1]
                r == handleMove(board, currentTurn, moveHistory,
                                move[1], move[2], <<>>, <<>>)
            IN  /\ board' = r.board
                /\ moveHistory' = r.history
                /\ req' = move
                /\ ret' = r.ret
                /\ applied' = IF r.ok
                              THEN Append(applied, Applied(board, move[1], move[2]))
                              ELSE applied
       ELSE UNCHANGED <<board, moveHistory, req, ret, applied>>
    /\ currentTurn' = nextTurn(currentTurn)
    /\ pc' = "loop"
    /\ UNCHANGED <<moves, cursor, winner, oob>>

\* Black branch, selection: moves[rand() % moves.size()], handleMove without
\* strings, then nextTurn whatever handleMove returned.
BlackApply(rv) ==
    /\ pc = "blackPick"
    /\ IF moves # <<>>
       THEN LET move == moves[(rv % Len(moves)) + 1]
                r == handleMove(board, currentTurn, moveHistory,
                                move[1], move[2], <<>>, <<>>)
            IN  /\ board' = r.board
                /\ moveHistory' = r.history
                /\ req' = move
                /\ ret' = r.ret
                /\ currentTurn' = nextTurn(currentTurn)
                /\ applied' = IF r.ok
                              THEN Append(applied, Applied(board, move[1], move[2]))
                              ELSE applied
       ELSE UNCHANGED <<board, moveHistory, req, ret, currentTurn, applied>>
    /\ pc' = "loop"
    /\ UNCHANGED <<moves, cursor, winner, oob>>

Next ==
    \/ LoopTop
    \/ \E fromStr \in Tokens, toStr \in Tokens : Human(fromStr, toStr)
    \/ BlackScan
    \/ \E rv \in RandValues : BlackApply(rv)

Spec == Init /\ [][Next]_vars

--------------------------------------------------------------------------
(* Board::move and the legality predicates on drawn board contents: a      *)
(* second specification whose initial states are boards holding a piece    *)
(* on one of a few cells and up to two more pieces near it, and whose one  *)
(* action calls Board::move once.                                          *)

\* The first loop of Board::setup: every cell Empty.
EmptyBoard == [p \in Pos |-> Empty]

Place(b, p, v) == IF p \in Pos THEN [b EXCEPT ![p] = v] ELSE b

Shift(p, o) == <<p[1] + o[1], p[2] + o[2]>>

\* Cells of the first drawn piece: on White's pawn rank, on Black's pawn rank.
FromCells == {<<6, 4>>, <<1, 3>>}

\* Where the second and the third drawn piece stand, relative to the first.
NearOffsets == {<<-1, 0>>, <<1, 0>>, <<-1, 1>>, <<1, -1>>}
FarOffsets == {<<-2, 0>>, <<2, 0>>, <<-2, 1>>}

\* Contents of the second and the third drawn cell.
Fill == {Empty, Pc(White, "Pawn"), Pc(Black, "Rook")}

DrawnBoards ==
    {Place(Place(Place(EmptyBoard, f, mv), Shift(f, oa), ca), Shift(f, ob), cb) :
        f \in FromCells, mv \in Pieces, oa \in NearOffsets, ca \in Fill,
        ob \in FarOffsets, cb \in Fill}

InitBoard ==
    /\ board \in DrawnBoards
    /\ currentTurn = White
    /\ moveHistory = <<>>
    /\ pc = "board"
    /\ moves = <<>>
    /\ cursor = 0
    /\ req = NoReq
    /\ ret = "none"
    /\ applied = <<>>
    /\ winner = "none"
    /\ oob = FALSE

\* Sources the model asks Board::move about: every piece and the drawn cells.
Sources(b) == {p \in Pos : b[p].type # "None"} \cup FromCells

\* One call of Board::move(from, to) on the drawn board.
BoardMoveOp(from, to) ==
    /\ pc = "board"
    /\ LET m == Board_move(board, from, to)
       IN  /\ board' = m.board
           /\ req' = <<from, to>>
           /\ ret' = IF m.ok THEN "applied" ELSE "illegal"
           /\ applied' = IF m.ok THEN <<Applied(board, from, to)>> ELSE <<>>
    /\ pc' = "boardDone"
    /\ UNCHANGED <<currentTurn, moveHistory, moves, cursor, winner, oob>>

NextBoard ==
    /\ pc = "board"
    /\ \E from \in Sources(board), to \in Pos : BoardMoveOp(from, to)

BoardSpec == InitBoard /\ [][NextBoard]_vars

-----------------------------------------------------------------------------------------------------------------------------------------------
(* The game loop late in one particular game.  StallGame is a game of 81   *)
(* half-moves, White's typed and Black's picked, each of which the code    *)
(* accepts; it ends with Black to move, its king in the corner a1 behind   *)
(* its own knight and pawns, the pawns blocked by their own pieces, by     *)
(* White's unmoved c2 pawn and by the White king on d1, so that no Black   *)
(* piece has a legal move.  The third specification starts the loop after  *)
(* the whole game and after some shorter odd number of its half-moves.     *)

\* The half-moves as token pairs (character codes), White's first.
StallGame ==
    <<
       <<<<100, 49>>, <<103, 52>>>>, <<<<100, 56>>, <<104, 52>>>>,   \* d1-g4 d8-h4
       <<<<103, 52>>, <<103, 55>>>>, <<<<104, 52>>, <<104, 50>>>>,   \* g4-g7 h4-h2
       <<<<103, 55>>, <<102, 55>>>>, <<<<104, 50>>, <<103, 50>>>>,   \* g7-f7 h2-g2
       <<<<102, 55>>, <<102, 56>>>>, <<<<103, 50>>, <<102, 50>>>>,   \* f7-f8 g2-f2
       <<<<102, 56>>, <<103, 56>>>>, <<<<102, 50>>, <<101, 50>>>>,   \* f8-g8 f2-e2
       <<<<103, 56>>, <<104, 56>>>>, <<<<101, 50>>, <<102, 49>>>>,   \* g8-h8 e2-f1
       <<<<104, 56>>, <<104, 55>>>>, <<<<102, 49>>, <<103, 49>>>>,   \* h8-h7 f1-g1
       <<<<104, 55>>, <<104, 56>>>>, <<<<103, 49>>, <<104, 49>>>>,   \* h7-h8 g1-h1
       <<<<104, 56>>, <<99, 56>>>>, <<<<104, 49>>, <<99, 49>>>>,   \* h8-c8 h1-c1
       <<<<101, 49>>, <<100, 49>>>>, <<<<98, 55>>, <<98, 53>>>>,   \* e1-d1 b7-b5
       <<<<100, 49>>, <<99, 49>>>>, <<<<99, 55>>, <<99, 53>>>>,   \* d1-c1 c7-c5
       <<<<99, 49>>, <<100, 49>>>>, <<<<99, 53>>, <<99, 52>>>>,   \* c1-d1 c5-c4
       <<<<99, 56>>, <<97, 56>>>>, <<<<99, 52>>, <<99, 51>>>>,   \* c8-a8 c4-c3
       <<<<97, 50>>, <<97, 52>>>>, <<<<98, 53>>, <<97, 52>>>>,   \* a2-a4 b5-a4
       <<<<97, 56>>, <<104, 56>>>>, <<<<99, 51>>, <<98, 50>>>>,   \* a8-h8 c3-b2
       <<<<104, 56>>, <<97, 56>>>>, <<<<100, 55>>, <<100, 53>>>>,   \* h8-a8 d7-d5
       <<<<98, 49>>, <<99, 51>>>>, <<<<100, 53>>, <<100, 52>>>>,   \* b1-c3 d5-d4
       <<<<97, 56>>, <<104, 56>>>>, <<<<100, 52>>, <<99, 51>>>>,   \* a8-h8 d4-c3
       <<<<104, 56>>, <<97, 56>>>>, <<<<98, 56>>, <<99, 54>>>>,   \* h8-a8 b8-c6
       <<<<97, 56>>, <<104, 56>>>>, <<<<99, 54>>, <<97, 53>>>>,   \* a8-h8 c6-a5
       <<<<104, 56>>, <<97, 56>>>>, <<<<97, 53>>, <<98, 51>>>>,   \* h8-a8 a5-b3
       <<<<97, 56>>, <<104, 56>>>>, <<<<98, 51>>, <<100, 50>>>>,   \* a8-h8 b3-d2
       <<<<104, 56>>, <<97, 56>>>>, <<<<100, 50>>, <<98, 49>>>>,   \* h8-a8 d2-b1
       <<<<97, 56>>, <<104, 56>>>>, <<<<101, 55>>, <<101, 53>>>>,   \* a8-h8 e7-e5
       <<<<104, 56>>, <<100, 56>>>>, <<<<101, 53>>, <<101, 52>>>>,   \* h8-d8 e5-e4
       <<<<100, 56>>, <<100, 51>>>>, <<<<101, 52>>, <<100, 51>>>>,   \* d8-d3 e4-d3
       <<<<100, 49>>, <<101, 49>>>>, <<<<100, 51>>, <<100, 50>>>>,   \* d1-e1 d3-d2
       <<<<101, 49>>, <<101, 50>>>>, <<<<101, 56>>, <<100, 56>>>>,   \* e1-e2 e8-d8
       <<<<101, 50>>, <<100, 49>>>>, <<<<100, 56>>, <<99, 55>>>>,   \* e2-d1 d8-c7
       <<<<100, 49>>, <<101, 49>>>>, <<<<99, 55>>, <<98, 54>>>>,   \* d1-e1 c7-b6
       <<<<101, 49>>, <<100, 49>>>>, <<<<98, 54>>, <<98, 53>>>>,   \* e1-d1 b6-b5
       <<<<100, 49>>, <<101, 49>>>>, <<<<98, 53>>, <<98, 52>>>>,   \* d1-e1 b5-b4
       <<<<101, 49>>, <<100, 49>>>>, <<<<97, 52>>, <<97, 51>>>>,   \* e1-d1 a4-a3
       <<<<100, 49>>, <<101, 49>>>>, <<<<98, 52>>, <<98, 51>>>>,   \* d1-e1 b4-b3
       <<<<101, 49>>, <<100, 49>>>>, <<<<98, 51>>, <<97, 50>>>>,   \* e1-d1 b3-a2
       <<<<100, 49>>, <<101, 49>>>>, <<<<97, 50>>, <<97, 49>>>>,   \* d1-e1 a2-a1
       <<<<101, 49>>, <<100, 49>>>>, <<<<97, 51>>, <<97, 50>>>>,   \* e1-d1 a3-a2
       <<<<100, 49>>, <<101, 49>>>>, <<<<97, 55>>, <<97, 53>>>>,   \* d1-e1 a7-a5
       <<<<101, 49>>, <<100, 49>>>>, <<<<97, 53>>, <<97, 52>>>>,   \* e1-d1 a5-a4
       <<<<100, 49>>, <<101, 49>>>>, <<<<97, 52>>, <<97, 51>>>>,   \* d1-e1 a4-a3
       <<<<101, 49>>, <<100, 49>>>>   \* e1-d1
    >>

\* One iteration of the loop of ChessGame::start on (board, currentTurn,
\* moveHistory) = s with the half-move mv: the end check, then White's
\* branch with the tokens or Black's branch with the pair picked.
ReplayStep(s, mv) ==
    LET from == ParsePos(mv[1])
        to == ParsePos(mv[2])
    IN  IF isCheckmate(s.board, s.turn) THEN s
        ELSE IF s.turn = White
        THEN LET r == handleMove(s.board, s.turn, s.history, from, to,
                                 mv[1], mv[2])
             IN  [board |-> r.board,
                  turn |-> HumanTurnAfter(r.ok, s.turn),
                  history |-> r.history]
        ELSE LET r == handleMove(s.board, s.turn, s.history, from, to,
                                 <<>>, <<>>)
             IN  [board |-> r.board,
                  turn |-> nextTurn(s.turn),
                  history |-> r.history]

\* The iterations for the half-moves lo .. hi of StallGame, from s on: those
\* of the first half of the range, then those of the second on what the
\* first half leaves.
RECURSIVE ReplayRange(_, _, _)
ReplayRange(s, lo, hi) ==
    IF lo > hi THEN s
    ELSE IF lo = hi THEN ReplayStep(s, StallGame[lo])
    ELSE CHOOSE r \in
             {ReplayRange(first, (lo + hi) \div 2 + 1, hi) :
                 first \in {ReplayRange(s, lo, (lo + hi) \div 2)}} :
             TRUE

\* board, currentTurn and moveHistory at the loop head after the first n
\* half-moves of StallGame.
Replay(n) ==
    ReplayRange([board |-> Board_setup, turn |-> White, history |-> <<>>], 1, n)

\* The numbers of half-moves after which the third specification starts.
StallPlies == {Len(StallGame) - 2 * k : k \in 0 .. 5}

\* `applied` logs the calls of Board::move from the starting state on.
InitStall ==
    /\ \E n \in StallPlies : \E s \in {Replay(n)} :
          /\ board = s.board
          /\ currentTurn = s.turn
          /\ moveHistory = s.history
    /\ pc = "loop"
    /\ moves = <<>>
    /\ cursor = 0
    /\ req = NoReq
    /\ ret = "none"
    /\ applied = <<>>
    /\ winner = "none"
    /\ oob = FALSE

StallSpec == InitStall /\ [][Next]_vars

--------------------------------------------------------------------------
(* Tokens that parse to a position outside the board.  The human branch    *)
(* hands the parsed positions to handleMove unchecked, so the vector       *)
(* indexing is out of range: the read yields a crash or some piece value,  *)
(* and an out-of-range store lands outside the 64 cells.                   *)

\* "e0" -> (8,4), "e9" -> (-1,4), "i1" -> (7,8), "`2" -> (6,-1)
OutTokens == {<<101, 48>>, <<101, 57>>, <<105, 49>>, <<96, 50>>}

\* What an out-of-range read may yield when it does not crash.
Garbage == {Empty, Pc(White, "Rook"), Pc(Black, "Pawn")}

ExtPos == (-1 .. BoardSize) \X (-1 .. BoardSize)

\* The grid as operator[] sees it: the cells, and g beyond them.
ExtBoard(b, g) == [p \in ExtPos |-> IF p \in Pos THEN b[p] ELSE g]

\* board[p.row][p.col] = v
WriteCell(b, p, v) == IF isValid(p) THEN [b EXCEPT ![p] = v] ELSE b

\* The positions piece->isMoveValid(from, to, board) indexes the grid at.
IndexedBy(piece, from, to, b) ==
    CASE piece.type = "None" -> {}
      [] piece.type = "Rook" ->
            IF from[1] # to[1] /\ from[2] # to[2] THEN {} ELSE {to}
      [] piece.type = "Pawn" ->
            LET dir == IF piece.color = White THEN -1 ELSE 1
                startRow == IF piece.color = White THEN 6 ELSE 1
            IN  IF /\ from[2] = to[2]
                   /\ b[to].type = "None"
                   /\ to[1] # from[1] + dir
                   /\ from[1] = startRow
                   /\ to[1] = from[1] + 2 * dir
                THEN {to, <<from[1] + dir, from[2]>>}
                ELSE {to}
      [] OTHER -> {to}

\* ChessGame::handleMove and Board::move on positions that may be invalid;
\* g is the value out-of-range reads yield.  oob: an invalid index was used.
handleMoveUB(b, turn, hist, from, to, fromStr, toStr, g) ==
    LET x == ExtBoard(b, g)
        piece == x[from]
    IN  IF piece.type = "None"
        THEN [ok |-> FALSE, board |-> b, history |-> hist, ret |-> "noPiece",
              oob |-> ~isValid(from)]
        ELSE IF piece.color # turn
        THEN [ok |-> FALSE, board |-> b, history |-> hist, ret |-> "wrongColor",
              oob |-> ~isValid(from)]
        ELSE IF ~isMoveValid(piece, from, to, x)
        THEN [ok |-> FALSE, board |-> b, history |-> hist, ret |-> "illegal",
              oob |-> \E p \in {from} \cup IndexedBy(piece, from, to, x) : ~isValid(p)]
        ELSE [ok |-> TRUE,
              board |-> WriteCell(WriteCell(b, to, MovedPiece(piece, to)), from, Empty),
              history |-> IF fromStr # <<>> /\ toStr # <<>>
                          THEN Append(hist, fromStr \o <<45>> \o toStr)
                          ELSE hist,
              ret |-> "applied",
              oob |-> TRUE]

\* White branch on tokens of which one parses to an invalid position.
HumanOOB(fromStr, toStr, g, crash) ==
    /\ pc = "white"
    /\ Len(applied) < MaxMoves
    /\ LET from == ParsePos(fromStr)
           to == ParsePos(toStr)
           r == handleMoveUB(board, currentTurn, moveHistory, from, to,
                             fromStr, toStr, g)
       IN  /\ ~(isValid(from) /\ isValid(to))
           /\ crash => r.oob
           /\ req' = <<from, to>>
           /\ oob' = (oob \/ r.oob)
           /\ IF crash
              THEN /\ pc' = "crashed"
                   /\ ret' = "crash"
                   /\ UNCHANGED <<board, moveHistory, currentTurn, applied>>
              ELSE /\ pc' = "loop"
                   /\ board' = r.board
                   /\ moveHistory' = r.history
                   /\ ret' = r.ret
                   /\ currentTurn' = HumanTurnAfter(r.ok, currentTurn)
                   /\ applied' = IF r.ok
                                 THEN Append(applied, [from |-> from, to |-> to,
                                                       piece |-> ExtBoard(board, g)[from]])
                                 ELSE applied
    /\ UNCHANGED <<moves, cursor, winner>>

NextOOB ==
    \/ Next
    \/ \E fromStr \in Tokens \cup OutTokens, toStr \in Tokens \cup OutTokens,
          g \in Garbage, crash \in BOOLEAN : HumanOOB(fromStr, toStr, g, crash)

SpecOOB == Init /\ [][NextOOB]_vars

--------------------------------------------------------------------------
(* Properties                                                              *)

Rejected == {"noPiece", "wrongColor", "illegal"}

\* C1 (Spec): the color to move is White after an even number of applied
\* moves and Black after an odd number; it flips in exactly the steps that
\* apply a move, and a rejected request of the human leaves it unchanged.
C1_TurnAlternation ==
    /\ [](currentTurn = IF Len(applied) % 2 = 0 THEN White ELSE Black)
    /\ [][(currentTurn' # currentTurn) <=> (Len(applied') = Len(applied) + 1)]_vars
    /\ [][(pc = "white" /\ ret' \in Rejected) => currentTurn' = currentTurn]_vars

\* Two moves were applied, then a request of White was rejected: White is
\* still to move.
C1_Witness ==
    /\ Len(applied) = 2
    /\ pc = "loop"
    /\ ret \in Rejected
    /\ currentTurn = White

\* C2 (Spec): a call of handleMove that returns false leaves the 64 cells,
\* the color to move and the history as they were, in every step that makes
\* such a call and, where a request is awaited, for every pair of in-range
\* positions; so does the same call made again on the result.
C2_RejectedPairs ==
    pc = "white" =>
        \A from \in Pos, to \in Pos :
            LET r == handleMove(board, currentTurn, moveHistory, from, to,
                                <<97, 49>>, <<97, 49>>)
                t == HumanTurnAfter(r.ok, currentTurn)
                again == handleMove(r.board, t, r.history, from, to,
                                    <<97, 49>>, <<97, 49>>)
            IN  ~r.ok =>
                    /\ r.board = board
                    /\ r.history = moveHistory
                    /\ t = currentTurn
                    /\ ~again.ok
                    /\ again.board = board
                    /\ again.history = moveHistory

C2_RejectionUnchanged ==
    /\ []C2_RejectedPairs
    /\ [][ret' \in Rejected =>
            /\ board' = board
            /\ currentTurn' = currentTurn
            /\ moveHistory' = moveHistory]_vars

\* After one move of each color a request of White failed the legality
\* predicate of its piece.
C2_Witness ==
    /\ pc = "loop"
    /\ ret = "illegal"
    /\ Len(applied) = 2
    /\ board[req[1]].color = White
    /\ board[req[1]].type # "None"

\* C3 (SpecOOB): a request with an out-of-range position is rejected, and
\* board storage is never indexed at an invalid position nor does the
\* program crash.
C3_OutOfRangeRejected ==
    /\ ~oob
    /\ pc # "crashed"
    /\ (req # NoReq /\ ~(isValid(req[1]) /\ isValid(req[2]))) => ret \in Rejected

\* The rank a pawn of the color promotes on.
FarRank(color) == IF color = White THEN 0 ELSE BoardSize - 1

\* C4 (BoardSpec): after an applied move of a Pawn to the farthest rank of
\* its color the destination holds a Queen of that color and the source is
\* Empty; after every other applied move the destination holds the mover.
C4_Promotion ==
    (pc = "boardDone" /\ ret = "applied") =>
        LET a == applied[1]
        IN  IF a.piece.type = "Pawn" /\ a.to[1] = FarRank(a.piece.color)
            THEN /\ board[a.to] = Pc(a.piece.color, "Queen")
                 /\ board[a.from] = Empty
            ELSE board[a.to] = a.piece

\* A Black pawn captured diagonally onto row 7.
C4_Witness ==
    /\ pc = "boardDone"
    /\ ret = "applied"
    /\ applied[1].piece = Pc(Black, "Pawn")
    /\ applied[1].to[1] = 7
    /\ applied[1].to[2] # applied[1].from[2]
    /\ board[applied[1].to] = Pc(Black, "Queen")

\* Some king of the color is on the board.
HasKing(b, color) == \E p \in Pos : b[p] = Pc(color, "King")

\* C5 (Spec): the game is Ended only with the king of the color to move
\* absent and the other color as winner; a move is awaited or chosen only
\* for a color whose king is present, and applied only for such a color;
\* once Ended, board, turn, history and the applied moves stay as they are.
C5_EndCondition ==
    /\ [](pc = "ended" => ~HasKing(board, currentTurn)
                          /\ winner = nextTurn(currentTurn))
    /\ [](winner # "none" => pc = "ended")
    /\ [](pc \in {"white", "blackEnum", "blackPick"} => HasKing(board, currentTurn))
    /\ [][Len(applied') > Len(applied) => HasKing(board, currentTurn)]_vars
    /\ [][(pc = "loop" /\ ~HasKing(board, currentTurn)) => pc' = "ended"]_vars
    /\ [][pc = "ended" => UNCHANGED <<board, currentTurn, moveHistory, applied, pc>>]_vars

\* Black's king was captured and the loop ended with White as winner.
C5_Witness ==
    /\ pc = "ended"
    /\ winner = White
    /\ currentTurn = Black
    /\ Len(applied) = 3

\* The pawn rule as the three cases: single step, double step, capture.
PawnRule(color, from, to, b) ==
    LET dir == IF color = White THEN -1 ELSE 1
        start == IF color = White THEN 6 ELSE 1
    IN  \/ /\ to[2] = from[2]
           /\ to[1] = from[1] + dir
           /\ b[to] = Empty
        \/ /\ to[2] = from[2]
           /\ from[1] = start
           /\ to[1] = from[1] + 2 * dir
           /\ b[to] = Empty
           /\ b[<<from[1] + dir, from[2]>>] = Empty
        \/ /\ Abs(to[2] - from[2]) = 1
           /\ to[1] = from[1] + dir
           /\ b[to] # Empty
           /\ b[to].color # color

\* C6 (BoardSpec): Board::move accepts a request whose source holds a Pawn
\* exactly in the three cases of the pawn rule, for every drawn board, pawn
\* color and destination.
C6_PawnLegality ==
    [][(pc = "board" /\ board[req'[1]].type = "Pawn") =>
          ((ret' = "applied") <=>
              PawnRule(board[req'[1]].color, req'[1], req'[2], board))]_vars

\* A White pawn on its start rank was refused the double step onto an empty
\* cell because the cell in between is occupied.
C6_Witness ==
    /\ pc = "boardDone"
    /\ ret = "illegal"
    /\ req = <<<<6, 4>>, <<4, 4>>>>
    /\ board[<<6, 4>>] = Pc(White, "Pawn")
    /\ board[<<5, 4>>] # Empty
    /\ board[<<4, 4>>] = Empty

\* The destination holds a piece of the color.
OwnAt(b, to, color) == b[to] # Empty /\ b[to].color = color

\* C7 (BoardSpec): Board::move accepts a request whose source holds a King
\* exactly when both deltas are at most 1, from # to, and the destination
\* holds no piece of the king's color.
C7_KingLegality ==
    [][(pc = "board" /\ board[req'[1]].type = "King") =>
          ((ret' = "applied") <=>
              /\ Abs(req'[1][1] - req'[2][1]) <= 1
              /\ Abs(req'[1][2] - req'[2][2]) <= 1
              /\ req'[1] # req'[2]
              /\ ~OwnAt(board, req'[2], board[req'[1]].color))]_vars

\* A king was refused the null move.
C7_Witness ==
    /\ pc = "boardDone"
    /\ ret = "illegal"
    /\ req[1] = req[2]
    /\ board[req[1]].type = "King"

KnightShape(from, to) ==
    <<Abs(from[1] - to[1]), Abs(from[2] - to[2])>> \in {<<2, 1>>, <<1, 2>>}

\* C8 (BoardSpec): Board::move refuses every request of a Knight whose
\* deltas are not (2,1) or (1,2), whatever the board holds, and accepts one
\* with such deltas exactly when the destination holds no piece of the
\* knight's color.
C8_KnightGeometry ==
    [][(pc = "board" /\ board[req'[1]].type = "Knight") =>
          /\ ~KnightShape(req'[1], req'[2]) => ret' = "illegal"
          /\ KnightShape(req'[1], req'[2]) =>
                ((ret' = "applied") <=>
                    ~OwnAt(board, req'[2], board[req'[1]].color))]_vars

\* A White knight was refused a one-step diagonal onto a Black piece.
C8_Witness ==
    /\ pc = "boardDone"
    /\ ret = "illegal"
    /\ board[req[1]] = Pc(White, "Knight")
    /\ board[req[2]] = Pc(Black, "Rook")
    /\ Abs(req[1][1] - req[2][1]) = 1
    /\ Abs(req[1][2] - req[2][2]) = 1

Sliders == {"Rook", "Bishop", "Queen"}

\* The geometry of the sliding pieces.
SliderShape(type, from, to) ==
    LET straight == from[1] = to[1] \/ from[2] = to[2]
        diagonal == Abs(from[1] - to[1]) = Abs(from[2] - to[2])
    IN  CASE type = "Rook"   -> straight
          [] type = "Bishop" -> diagonal
          [] type = "Queen"  -> straight \/ diagonal

Sgn(x) == IF x > 0 THEN 1 ELSE IF x < 0 THEN -1 ELSE 0

\* The cells strictly between from and to on a row, column or diagonal.
Between(from, to) ==
    LET dr == to[1] - from[1]
        dc == to[2] - from[2]
        n == IF Abs(dr) > Abs(dc) THEN Abs(dr) ELSE Abs(dc)
    IN  IF dr = 0 \/ dc = 0 \/ Abs(dr) = Abs(dc)
        THEN {<<from[1] + k * Sgn(dr), from[2] + k * Sgn(dc)>> : k \in 1 .. (n - 1)}
        ELSE {}

\* C9 (BoardSpec): for Rook, Bishop and Queen Board::move accepts a request
\* exactly when the geometry of the piece holds and the destination holds no
\* piece of the mover's color; rewriting any one cell other than the
\* destination - each cell between from and to, the source, each occupied
\* cell - leaves the legality result as it is.
C9_SlidersIgnorePath ==
    [][(pc = "board" /\ board[req'[1]].type \in Sliders) =>
          LET from == req'[1]
              to == req'[2]
              mover == board[from]
          IN  /\ (ret' = "applied") <=>
                    /\ SliderShape(mover.type, from, to)
                    /\ ~OwnAt(board, to, mover.color)
              /\ \A c \in (Between(from, to) \cup Sources(board)) \ {to} :
                    \A v \in Fill :
                        isMoveValid(mover, from, to, [board EXCEPT ![c] = v])
                            = (ret' = "applied")]_vars

\* A rook moved two cells along its column over an occupied cell.
C9_Witness ==
    /\ pc = "boardDone"
    /\ ret = "applied"
    /\ applied[1].piece.type = "Rook"
    /\ applied[1].from = <<6, 4>>
    /\ applied[1].to = <<4, 4>>
    /\ board[<<5, 4>>] # Empty

\* C10 (Spec): no step of Black's enumeration, each of which clones the live
\* board and moves on the clone for every candidate of one piece, changes a
\* cell of the live board; the live board changes only when the selected
\* move is applied; and a move applied to a clone of the live board leaves
\* the live board as it was, for every candidate listed.
SnapshotMoveKeepsLive(from, to) ==
    LET c == Board_clone([live |-> board, test |-> Board_setup], "live")
        m == Board_move(c.heap[c.ref], from, to)
        h == [c.heap EXCEPT ![c.ref] = m.board]
    IN  m.ok /\ h.live = board /\ h[c.ref] # board

C10_SnapshotIsolation ==
    /\ [][pc = "blackEnum" => board' = board]_vars
    /\ [](pc = "blackPick" =>
            \A i \in 1 .. Len(moves) : SnapshotMoveKeepsLive(moves[i][1], moves[i][2]))

\* The enumeration has probed candidates and is still under way.
C10_Witness ==
    /\ pc = "blackEnum"
    /\ Len(moves) > 0
    /\ cursor < BoardSize * BoardSize

\* The pairs meeting conditions (a) and (b) of the Black branch on board b:
\* the source holds a piece of the color, and its predicate accepts the pair.
LegalPairs(b, color) ==
    {m \in Pos \X Pos :
        /\ ~(b[m[1]].color # color \/ b[m[1]].type = "None")
        /\ isMoveValid(b[m[1]], m[1], m[2], b)}

\* The pairs of a candidate list.
Listed(ms) == {ms[i] : i \in 1 .. Len(ms)}

\* C11 (Spec): while Black's enumeration runs, the candidate list holds,
\* once each, exactly the pairs with a Black source before the scan cursor
\* that the piece's predicate accepts - the king test drops none - and when
\* the enumeration is over it holds all such pairs; each of them, applied
\* to a copy of the board, leaves a Black king on the copy.
C11_KingFilterNoOp ==
    pc \in {"blackEnum", "blackPick"} =>
        /\ Listed(moves) =
              {m \in LegalPairs(board, Black) : ScanIdx(m[1]) < cursor}
        /\ Len(moves) = Cardinality(Listed(moves))
        /\ pc = "blackPick" => Listed(moves) = LegalPairs(board, Black)
        /\ \A m \in LegalPairs(board, Black) :
              HasKing(Board_move(board, m[1], m[2]).board, Black)

\* The enumeration is over and the list holds a capture by the Black king.
C11_Witness ==
    /\ pc = "blackPick"
    /\ \E m \in Listed(moves) :
          board[m[1]].type = "King" /\ board[m[2]].type # "None"

\* Black is to move, its king stands, and no pair with a Black source passes
\* the legality predicate.
Stalled ==
    /\ currentTurn = Black
    /\ HasKing(board, Black)
    /\ LegalPairs(board, Black) = {}

\* C12 (StallSpec): when Black's enumeration ends with an empty candidate
\* list, the selection step applies no move and leaves board, turn and
\* history as they are; the list is empty exactly when no Black piece has a
\* legal move; and from a state in which Black is to move without a legal
\* move no step changes the board, the turn or the history or ends the
\* game, so the state of no legal move holds at all later times.
C12_NoLegalMoveStall ==
    /\ [][(pc = "blackPick" /\ moves = <<>>) =>
            /\ board' = board
            /\ currentTurn' = currentTurn
            /\ moveHistory' = moveHistory
            /\ applied' = applied
            /\ pc' = "loop"]_vars
    /\ [](pc = "blackPick" => (moves = <<>> <=> Stalled))
    /\ [][Stalled =>
            /\ board' = board
            /\ currentTurn' = currentTurn
            /\ moveHistory' = moveHistory
            /\ pc' # "ended"]_vars
    /\ [](Stalled => [](Stalled /\ pc # "ended"))

\* After the whole of StallGame, each of White's 41 requests recorded, an
\* iteration of the loop has run with Black to move and an empty candidate
\* list, and the loop is about to start over.
C12_Witness ==
    /\ Len(moveHistory) = (Len(StallGame) + 1) \div 2
    /\ pc = "loop"
    /\ cursor = BoardSize * BoardSize
    /\ moves = <<>>
    /\ Stalled

\* The token that parses to position p: file letter, rank digit.
FormatPos(p) == <<p[2] + 97, (8 - p[1]) + 48>>

\* C13 (Spec): the history only grows, and by appending; every step that
\* applies a move to the board, White's or Black's, appends the one record
\* from-to of that move, and every other step leaves the history as it is;
\* so the history is as long as the log of applied moves.
C13_HistoryRecordsApplied ==
    /\ [][Len(applied') = Len(applied) + 1 =>
            moveHistory' = Append(moveHistory,
                FormatPos(req'[1]) \o <<45>> \o FormatPos(req'[2]))]_vars
    /\ [][Len(applied') = Len(applied) => moveHistory' = moveHistory]_vars
    /\ [](Len(moveHistory) = Len(applied))

\* The three requests of the scenario, in order.
ScenarioMoves ==
    << <<<<6, 4>>, <<4, 4>>>>, <<<<1, 3>>, <<3, 3>>>>, <<<<7, 5>>, <<4, 2>>>> >>

\* The (from, to) pairs of the moves applied so far.
AppliedPairs == [i \in 1 .. Len(applied) |-> <<applied[i].from, applied[i].to>>]

\* The moves applied so far are the first n requests of the scenario.
OnScenario(n) == AppliedPairs = SubSeq(ScenarioMoves, 1, n)

\* The starting arrangement, row by row from row 0, written out.
StartRows ==
    << [j \in 1 .. 8 |-> Pc(Black, <<"Rook", "Knight", "Bishop", "Queen",
                                     "King", "Bishop", "Knight", "Rook">>[j])],
       [j \in 1 .. 8 |-> Pc(Black, "Pawn")],
       [j \in 1 .. 8 |-> Empty], [j \in 1 .. 8 |-> Empty],
       [j \in 1 .. 8 |-> Empty], [j \in 1 .. 8 |-> Empty],
       [j \in 1 .. 8 |-> Pc(White, "Pawn")],
       [j \in 1 .. 8 |-> Pc(White, <<"Rook", "Knight", "Bishop", "Queen",
                                     "King", "Bishop", "Knight", "Rook">>[j])] >>

\* The arrangement the scenario ends with.
ScenarioBoard ==
    [p \in Pos |->
        CASE p = <<4, 4>> -> Pc(White, "Pawn")
          [] p = <<3, 3>> -> Pc(Black, "Pawn")
          [] p = <<4, 2>> -> Pc(White, "Bishop")
          [] p \in {<<6, 4>>, <<1, 3>>, <<7, 5>>} -> Empty
          [] OTHER -> StartRows[p[1] + 1][p[2] + 1]]

\* C14 (Spec): the game starts on the standard arrangement with White to
\* move; as long as the moves applied so far are the first n requests of
\* the scenario, request n+1 - typed by White, or picked by Black, in whose
\* candidate list it stands - is accepted; and once the three are applied
\* (6,4), (1,3), (7,5) are Empty, (4,4) holds a White Pawn, (3,3) a Black
\* Pawn, (4,2) a White Bishop, every other cell is as at the start, and
\* Black is to move.
C14_Scenario ==
    /\ [](applied = <<>> =>
            /\ currentTurn = White
            /\ \A p \in Pos : board[p] = StartRows[p[1] + 1][p[2] + 1])
    /\ [][\A n \in 0 .. 2 :
            (/\ OnScenario(n)
             /\ pc \in {"white", "blackPick"}
             /\ req' = ScenarioMoves[n + 1])
            => (ret' = "applied" /\ OnScenario(n + 1)')]_vars
    /\ []((pc = "blackPick" /\ OnScenario(1)) => ScenarioMoves[2] \in Listed(moves))
    /\ [](OnScenario(3) => (board = ScenarioBoard /\ currentTurn = Black))

\* The three moves of the scenario have been applied.
C14_Witness ==
    /\ OnScenario(3)
    /\ applied[1].piece = Pc(White, "Pawn")
    /\ applied[2].piece = Pc(Black, "Pawn")
    /\ applied[3].piece = Pc(White, "Bishop")

\* C15 (BoardSpec): when Board::move(from, to) returns true, from and to
\* differ, the source cell is Empty afterwards, the destination holds the
\* mover, or a Queen of the mover's color for a pawn moved onto row 0 or 7,
\* and each of the other 62 cells holds what it held; and in every state
\* every cell of the grid holds one piece value, Empty included.
C15_MoveFrame ==
    /\ [][(pc = "board" /\ ret' = "applied") =>
            LET from == req'[1]
                to == req'[2]
                mover == board[from]
            IN  /\ from # to
                /\ board'[from] = Empty
                /\ board'[to] = IF mover.type = "Pawn" /\ to[1] \in {0, 7}
                                THEN Pc(mover.color, "Queen")
                                ELSE mover
                /\ \A p \in Pos \ {from, to} : board'[p] = board[p]]_vars
    /\ [](DOMAIN board = Pos /\ \A p \in Pos : board[p] \in Pieces)

\* A White knight or king was moved while a Black rook stood on a third
\* cell, and stands there still.
C15_Witness ==
    /\ pc = "boardDone"
    /\ ret = "applied"
    /\ Cardinality({p \in Pos : board[p] # Empty}) = 2
    /\ \E p \in Pos \ {req[1], req[2]} : board[p] = Pc(Black, "Rook")
    /\ board[req[2]].color = White /\ board[req[2]].type \in {"Knight", "King"}

\* C16 (Spec): when Black's enumeration is over, handleMove called without
\* strings on any pair of the candidate list returns true and changes the
\* board; the selection step with a non-empty list applies a move and hands
\* the turn to White; and the turn passes from Black to White only in a
\* selection step that applied one move, made by a Black piece.
C16_BlackTurnNeedsMove ==
    /\ [](pc = "blackPick" =>
            \A i \in 1 .. Len(moves) :
                LET r == handleMove(board, currentTurn, moveHistory,
                                    moves[i][1], moves[i][2], <<>>, <<>>)
                IN  r.ok /\ r.board # board)
    /\ [][(pc = "blackPick" /\ moves # <<>>) =>
            (ret' = "applied" /\ board' # board /\ currentTurn' = White)]_vars
    /\ [][(currentTurn = Black /\ currentTurn' = White) =>
            /\ pc = "blackPick"
            /\ ret' = "applied"
            /\ board' # board
            /\ Len(applied') = Len(applied) + 1
            /\ applied'[Len(applied')].piece.color = Black]_vars

\* The Black branch has just applied a capture and handed the turn to White.
C16_Witness ==
    /\ pc = "loop"
    /\ currentTurn = White
    /\ ret = "applied"
    /\ Len(applied) = 2
    /\ applied[2].piece.color = Black
    /\ applied[2].to = applied[1].to

\* The cells holding a king of the color.
Kings(b, color) == {p \in Pos : b[p] = Pc(color, "King")}

\* C17 (Spec): each color has at most one king on the board in every state,
\* and exactly one while a move is awaited or chosen, after the end check;
\* and a step that changes where the kings of a color stand applies a move
\* that either moves the one king of the color, or is made by a piece of
\* the other color onto the king's cell and leaves the color without king.
C17_KingCount ==
    /\ [](\A c \in Colors : Cardinality(Kings(board, c)) <= 1)
    /\ [](pc \in {"white", "blackEnum", "blackPick"} =>
            \A c \in Colors : Cardinality(Kings(board, c)) = 1)
    /\ [][\A c \in Colors :
            Kings(board', c) # Kings(board, c) =>
                /\ ret' = "applied"
                /\ Len(applied') = Len(applied) + 1
                /\ LET from == req'[1]
                       to == req'[2]
                       mover == board[from]
                   IN  \/ /\ mover = Pc(c, "King")
                          /\ Kings(board, c) = {from}
                          /\ Kings(board', c) = {to}
                       \/ /\ mover.color # c
                          /\ mover.type # "None"
                          /\ Kings(board, c) = {to}
                          /\ Kings(board', c) = {}]_vars

\* The Black king has been taken by a White piece.
C17_Witness ==
    /\ Kings(board, Black) = {}
    /\ Kings(board, White) # {}
    /\ applied[Len(applied)].piece.color = White
    /\ applied[Len(applied)].to = <<0, 4>>

\* No Pawn stands on row 0 or row 7 of b.
NoEndPawn(b) == \A p \in Pos : b[p].type = "Pawn" => p[1] \notin {0, BoardSize - 1}

\* The cells of b holding a Pawn.
PawnCells(b) == {p \in Pos : b[p].type = "Pawn"}

\* C18 (StallSpec): in every state of the game no Pawn stands on row 0 or
\* row 7, and no call of Board::move on a pawn of the board that returns
\* true puts one there; every applied move of a Pawn onto row 0 or 7 is onto the
\* farthest rank of the pawn's color and leaves a Queen of that color; and
\* for every pawn of the board and every destination the pawn predicate
\* indexes the grid only at cells of the board.
C18_NoPawnOnEndRank ==
    /\ NoEndPawn(Board_setup)
    /\ [](/\ NoEndPawn(board)
          /\ \A from \in PawnCells(board), to \in Pos :
                /\ Board_move(board, from, to).ok =>
                        NoEndPawn(Board_move(board, from, to).board)
                /\ IndexedBy(board[from], from, to, board) \subseteq Pos)
    /\ [][(/\ Len(applied') = Len(applied) + 1
           /\ board[req'[1]].type = "Pawn"
           /\ req'[2][1] \in {0, BoardSize - 1})
          => /\ req'[2][1] = FarRank(board[req'[1]].color)
             /\ board'[req'[2]] = Pc(board[req'[1]].color, "Queen")]_vars

\* A Black pawn has just moved onto row 7, where a Black Queen stands now.
C18_Witness ==
    /\ Len(applied) > 0
    /\ applied[Len(applied)].piece = Pc(Black, "Pawn")
    /\ applied[Len(applied)].to[1] = BoardSize - 1
    /\ board[applied[Len(applied)].to] = Pc(Black, "Queen")
    /\ pc = "loop"

\* C19 (Spec): a step that applies a move onto the cell of the king of the
\* color not moving is accepted like any other and leaves that color
\* without king; whenever a color is without king the loop is at its head
\* with that color to move, or has ended; and from the loop head with the
\* king of the color to move absent the game ends with the other color as
\* winner.  The witness is such a game: a White queen passes over the d2
\* pawn to d8 and takes the Black king from there.
C19_KingCapture ==
    /\ [][(/\ Len(applied') = Len(applied) + 1
           /\ board[req'[2]].type = "King")
          => /\ board[req'[2]].color # board[req'[1]].color
             /\ ~HasKing(board', board[req'[2]].color)
             /\ currentTurn' = board[req'[2]].color
             /\ pc' = "loop"]_vars
    /\ [](\A c \in Colors :
            ~HasKing(board, c) =>
                \/ pc = "loop" /\ currentTurn = c
                \/ pc = "ended" /\ winner = nextTurn(c))
    /\ [][(pc = "loop" /\ ~HasKing(board, currentTurn)) =>
            (pc' = "ended" /\ winner' = nextTurn(currentTurn))]_vars

\* The game has ended with White as winner: the Black king is off the
\* board, taken by the White queen that had jumped from d1 over the pawn
\* on d2 to d8.
C19_Witness ==
    /\ pc = "ended"
    /\ winner = White
    /\ ~HasKing(board, Black)
    /\ HasKing(board, White)
    /\ Len(applied) = 3
    /\ applied[1] = [from |-> <<7, 3>>, to |-> <<0, 3>>, piece |-> Pc(White, "Queen")]
    /\ applied[3] = [from |-> <<0, 3>>, to |-> <<0, 4>>, piece |-> Pc(White, "Queen")]
    /\ board[<<6, 3>>] = Pc(White, "Pawn")

====
